---- MODULE Spec2Model ----
(***************************************************************************)
(* Model of the invoice OCR reconciliation code of src/src/App.jsx:        *)
(* the text helpers (normalizeDigits, parseDateFromText, numbersInText,    *)
(* pickLikelyAmount, pickLikelyPrice, pickLikelyProduct), the matcher      *)
(* (similarText, closeNum, compareWithData) and the per-file pipeline      *)
(* handleOCRFiles with its item list ocrItems.                             *)
(*                                                                         *)
(* A text is a sequence of characters; a character is a one-letter string, *)
(* except the non-ASCII ones, which are written by name: "ar0".."ar9" are  *)
(* the Eastern Arabic-Indic digits, "ar_comma" is U+060C, "ar_thousands"   *)
(* is U+066C, "fw_colon" is U+FF1A, and the Arabic letters of the keywords *)
(* are "alef", "lam", ...                                                  *)
(* A number is an integer count of hundredths (Scale = 100 is 1.00).       *)
(* An optional value (null in the source) is None or Some(v).              *)
(*                                                                         *)
(* Spec and FairSpec are the pipeline. MatcherSpec, NormalizerSpec,        *)
(* DateSpec, AmountSpec, PriceSpec and ProductSpec apply compareWithData,  *)
(* normalizeDigits, parseDateFromText, pickLikelyAmount, pickLikelyPrice   *)
(* and pickLikelyProduct to inputs drawn by their initial predicates.      *)
(***************************************************************************)
EXTENDS Integers, Sequences, FiniteSets, TLC

None == <<>>
Some(v) == <<v>>

Max2(a, b) == IF a >= b THEN a ELSE b
Abs(a) == IF a >= 0 THEN a ELSE 0 - a

(***************************************************************************)
(* Characters                                                              *)
(***************************************************************************)
Digits == {"0", "1", "2", "3", "4", "5", "6", "7", "8", "9"}
DigitChars == <<"0", "1", "2", "3", "4", "5", "6", "7", "8", "9">>
\* the string literal of line 66, "٠١٢٣٤٥٦٧٨٩"
ArabicDigits == <<"ar0", "ar1", "ar2", "ar3", "ar4", "ar5", "ar6", "ar7", "ar8", "ar9">>
ArabicSeparators == {"ar_thousands", "ar_comma"}
WhiteSpace == {" ", "\t", "\n", "\r"}
UpperCase == <<"A", "B", "C", "D", "E", "F", "G", "H", "I", "J", "K", "L", "M",
               "N", "O", "P", "Q", "R", "S", "T", "U", "V", "W", "X", "Y", "Z">>
LowerCase == <<"a", "b", "c", "d", "e", "f", "g", "h", "i", "j", "k", "l", "m",
               "n", "o", "p", "q", "r", "s", "t", "u", "v", "w", "x", "y", "z">>

IsDigit(c) == c \in Digits
DigitVal(c) == CHOOSE v \in 0..9 : DigitChars[v + 1] = c

\* String.prototype.indexOf on a string of distinct characters, -1 if absent
indexOf(str, c) ==
    IF \E i \in 1..Len(str) : str[i] = c
    THEN (CHOOSE i \in 1..Len(str) : str[i] = c /\ \A j \in 1..(i - 1) : str[j] /= c) - 1
    ELSE 0 - 1

toLowerChar(c) == IF indexOf(UpperCase, c) >= 0 THEN LowerCase[indexOf(UpperCase, c) + 1] ELSE c
toLowerCase(s) == [i \in 1..Len(s) |-> toLowerChar(s[i])]

\* s.slice(from, to) with 0-based from (inclusive) and to (exclusive)
slice(s, from, to) ==
    LET end == IF to > Len(s) THEN Len(s) ELSE to
    IN  IF end <= from THEN <<>> ELSE [i \in 1..(end - from) |-> s[from + i]]

\* does pat occur in s at 1-based position p
OccursAt(s, pat, p) ==
    /\ p >= 1
    /\ p + Len(pat) - 1 <= Len(s)
    /\ \A j \in 1..Len(pat) : s[p + j - 1] = pat[j]

\* String.prototype.includes
includes(s, pat) == \E p \in 1..(Len(s) + 1) : OccursAt(s, pat, p)

(***************************************************************************)
(* normalizeDigits (lines 65-66)                                           *)
(***************************************************************************)
\* the thousands separator made an Arabic comma, for a second pass to replace
normalizeCharTwoPasses(c) ==
    IF indexOf(ArabicDigits, c) >= 0 THEN DigitChars[indexOf(ArabicDigits, c) + 1]
    ELSE IF c = "ar_thousands" THEN "ar_comma"
    ELSE IF c = "ar_comma" THEN ","
    ELSE c

\* the digit taken one place further in the string of line 66
normalizeCharShifted(c) ==
    IF indexOf(ArabicDigits, c) >= 0 THEN DigitChars[((indexOf(ArabicDigits, c) + 1) % 10) + 1]
    ELSE IF c \in ArabicSeparators THEN ","
    ELSE c

normalizeChar(c) ==
    IF indexOf(ArabicDigits, c) >= 0 THEN DigitChars[indexOf(ArabicDigits, c) + 1]
    ELSE IF c \in ArabicSeparators THEN ","
    ELSE c

normalizeDigits(s) == [i \in 1..Len(s) |-> normalizeChar(s[i])]

(***************************************************************************)
(* Numbers written in a text                                               *)
(***************************************************************************)
\* length of the run of digits of t that starts at position p, at most max
DigitRun(t, p, max) ==
    LET Ok(n) == \A j \in 0..(n - 1) : p + j <= Len(t) /\ IsDigit(t[p + j])
    IN  CHOOSE n \in 0..max : Ok(n) /\ (n = max \/ ~Ok(n + 1))

\* value of the n digits of t from position p, as an integer
RECURSIVE NumVal(_, _, _)
NumVal(t, p, n) ==
    IF n = 0 THEN 0 ELSE 10 * NumVal(t, p, n - 1) + DigitVal(t[p + n - 1])

(***************************************************************************)
(* new Date(y, monthIndex, da) and its getters (lines 76, 83, 62)          *)
(***************************************************************************)
IsLeap(y) == (y % 4 = 0 /\ y % 100 /= 0) \/ y % 400 = 0

\* m is a month index 0..11
DaysInMonth(y, m) ==
    IF m = 1 THEN (IF IsLeap(y) THEN 29 ELSE 28)
    ELSE IF m \in {3, 5, 8, 10} THEN 30 ELSE 31

\* day overflow and underflow carried into the month and the year
RECURSIVE DateRoll(_, _, _)
DateRoll(y, m, d) ==
    IF d < 1 THEN
        (IF m = 0 THEN DateRoll(y - 1, 11, d + DaysInMonth(y - 1, 11))
                  ELSE DateRoll(y, m - 1, d + DaysInMonth(y, m - 1)))
    ELSE IF d > DaysInMonth(y, m) THEN
        (IF m = 11 THEN DateRoll(y + 1, 0, d - DaysInMonth(y, m))
                   ELSE DateRoll(y, m + 1, d - DaysInMonth(y, m)))
    ELSE [year |-> y, month |-> m + 1, day |-> d]

\* new Date(y, monthIndex, da): a two-digit year counts from 1900, the
\* month index is carried into the year, the day into the month; the
\* result is a date of the calendar, never an invalid one
NewDate(y, monthIndex, da) ==
    LET yy == IF y \in 0..99 THEN 1900 + y ELSE y
    IN  DateRoll(yy + (monthIndex \div 12), monthIndex % 12, da)

\* isNaN(dt.getTime()): no date built from finite integers is invalid
isNaNDate(dt) == FALSE

\* yyyymmdd (line 62), the formatted day as the triple it is made of
yyyymmdd(d) == IF d = None THEN <<>> ELSE <<d[1].year, d[1].month, d[1].day>>

(***************************************************************************)
(* parseDateFromText (lines 69-87)                                         *)
(***************************************************************************)
IsDateSep(c) == c \in {"/", "-"}
IsDateSepAt(t, p) == p >= 1 /\ p <= Len(t) /\ IsDateSep(t[p])

\* p1 = /(\d{4})[\/\-](\d{1,2})[\/\-](\d{1,2})/ tried at position s with a
\* month of ml digits
P1Fits(t, s, ml) ==
    /\ DigitRun(t, s, 4) = 4
    /\ IsDateSepAt(t, s + 4)
    /\ DigitRun(t, s + 5, 2) >= ml
    /\ IsDateSepAt(t, s + 5 + ml)
    /\ DigitRun(t, s + 6 + ml, 2) >= 1

\* t.match(p1): the leftmost match, each group as long as it can be
matchP1(t) ==
    LET At(s) == \E ml \in 1..2 : P1Fits(t, s, ml)
        groups(s, ml) ==
            <<NumVal(t, s, 4), NumVal(t, s + 5, ml),
              NumVal(t, s + 6 + ml, DigitRun(t, s + 6 + ml, 2))>>
        matchAt(s) == groups(s, IF P1Fits(t, s, 2) THEN 2 ELSE 1)
        leftmost(starts) ==
            IF starts = {} THEN None
            ELSE Some(matchAt(CHOOSE x \in starts : \A z \in starts : x <= z))
    IN  leftmost({s \in 1..Len(t) : At(s)})

\* p2 = /(\d{1,2})[\/\-](\d{1,2})[\/\-](\d{2,4})/ tried at position s with
\* a day of dl digits and a month of ml digits
P2Fits(t, s, dl, ml) ==
    /\ DigitRun(t, s, 2) >= dl
    /\ IsDateSepAt(t, s + dl)
    /\ DigitRun(t, s + dl + 1, 2) >= ml
    /\ IsDateSepAt(t, s + dl + 1 + ml)
    /\ DigitRun(t, s + dl + 2 + ml, 4) >= 2

matchP2(t) ==
    LET Lens == <<(<<2, 2>>), (<<2, 1>>), (<<1, 2>>), (<<1, 1>>)>>
        At(s) == \E k \in 1..4 : P2Fits(t, s, Lens[k][1], Lens[k][2])
        year(ys) == NumVal(t, ys, DigitRun(t, ys, 4))
        groups(s, l) ==
            <<NumVal(t, s, l[1]), NumVal(t, s + l[1] + 1, l[2]), year(s + l[1] + 2 + l[2])>>
        fitting(s) == {k \in 1..4 : P2Fits(t, s, Lens[k][1], Lens[k][2])}
        first(ks) == Lens[CHOOSE k \in ks : \A j \in ks : k <= j]
        matchAt(s) == groups(s, first(fitting(s)))
        leftmost(starts) ==
            IF starts = {} THEN None
            ELSE Some(matchAt(CHOOSE x \in starts : \A z \in starts : x <= z))
    IN  leftmost({s \in 1..Len(t) : At(s)})

parseDateFromText(text) ==
    LET fromP1(m) == NewDate(m[1], m[2] - 1, m[3])
        fromP2(m) == NewDate(IF m[3] < 100 THEN m[3] + 2000 ELSE m[3], m[2] - 1, m[1])
        valid(dt) == IF isNaNDate(dt) THEN None ELSE Some(dt)
        orElse(d1, d2) == IF d1 /= None THEN d1 ELSE d2
        dateOf(m1, m2) ==
            orElse(IF m1 /= None THEN valid(fromP1(m1[1])) ELSE None,
                   IF m2 /= None THEN valid(fromP2(m2[1])) ELSE None)
        inText(t) == dateOf(matchP1(t), matchP2(t))
    IN  inText(normalizeDigits(text))

(***************************************************************************)
(* numbersInText (lines 89-92)                                             *)
(***************************************************************************)
\* s.replace(/,/g, "")
removeCommas(s) == LET NotComma(c) == c /= "," IN SelectSeq(s, NotComma)

\* parseFloat of digits, optionally followed by "." and digits, in
\* hundredths; the texts of the model write at most two decimals
Scale == 10 * 10
parseFloat(s) ==
    LET fraction(f, p) ==
            IF f = 0 THEN 0
            ELSE IF f = 1 THEN 10 * NumVal(s, p, 1)
            ELSE NumVal(s, p, 2)
        decimals(p) ==
            IF p - 1 <= Len(s) /\ s[p - 1] = "." THEN fraction(DigitRun(s, p, 2), p) ELSE 0
        value(n) == NumVal(s, 1, n) * Scale + decimals(n + 2)
    IN  value(DigitRun(s, 1, Len(s)))

\* the matches of /\d+(?:[.,]\d+)?/g in t from position p on
RECURSIVE numberTokens(_, _)
numberTokens(t, p) ==
    IF p > Len(t) THEN <<>>
    ELSE IF ~IsDigit(t[p]) THEN numberTokens(t, p + 1)
    ELSE LET fraction(q) ==
                 IF q + 1 <= Len(t) /\ t[q] \in {".", ","} /\ IsDigit(t[q + 1])
                 THEN 1 + DigitRun(t, q + 1, Len(t)) ELSE 0
             token(len) == <<slice(t, p - 1, p - 1 + len)>> \o numberTokens(t, p + len)
             whole(n) == token(n + fraction(p + n))
         IN  whole(DigitRun(t, p, Len(t)))

numbersInText(text) ==
    LET Kept(c) == c \in Digits \cup {".", ",", "\n", "\r", " "}
        values(toks) == [i \in 1..Len(toks) |-> parseFloat(removeCommas(toks[i]))]
    IN  values(numberTokens(SelectSeq(normalizeDigits(text), Kept), 1))

\* nums[0] taken without Math.max
MaxOfUnsorted(nums) == nums[1]

\* nums[0] taken without the sort of line 108
MinOfUnsorted(nums) == nums[1]

\* Math.max(...nums) and the first element of nums sorted ascending
MaxOf(nums) == CHOOSE x \in {nums[i] : i \in 1..Len(nums)} : \A i \in 1..Len(nums) : nums[i] <= x
MinOf(nums) == CHOOSE x \in {nums[i] : i \in 1..Len(nums)} : \A i \in 1..Len(nums) : nums[i] >= x

(***************************************************************************)
(* pickLikelyAmount, pickLikelyPrice (lines 94-110)                        *)
(***************************************************************************)
\* (total|amount|...) of line 96; the Arabic words by letter name
AmountKeywords == <<
    <<"t", "o", "t", "a", "l">>,
    <<"a", "m", "o", "u", "n", "t">>,
    <<"alef", "lam", "alef_hamza_below", "jeem", "meem", "alef", "lam", "yeh">>,
    <<"alef", "lam", "alef_hamza_below", "jeem", "meem", "alef", "lam", "alef_maksura">>,
    <<"alef", "lam", "meem", "jeem", "meem", "waw", "ain">>,
    <<"alef", "lam", "meem", "beh", "lam", "ghain">> >>

\* (price|...) of line 105, without unit\s*price, which is UnitPriceEnd
PriceKeywords == <<
    <<"p", "r", "i", "c", "e">>,
    <<"alef", "lam", "seen", "ain", "reh">>,
    <<"seen", "ain", "reh", " ", "alef", "lam", "waw", "hah", "dal", "teh_marbuta">> >>

\* length of the run of characters of the class cls from position p
RunOf(t, p, cls) ==
    IF p > Len(t) THEN 0
    ELSE CHOOSE n \in 0..(Len(t) + 1 - p) :
            /\ \A j \in 0..(n - 1) : t[p + j] \in cls
            /\ (p + n > Len(t) \/ t[p + n] \notin cls)

\* the characters of t
CharsOf(t) == {t[i] : i \in 1..Len(t)}

\* \D{0,10}(\d+[.,]?\d*) from position e on: the text of group 2, or None
numberAfter(t, e) ==
    LET fraction(p) ==
            IF p <= Len(t) /\ t[p] \in {".", ","} THEN 1 + RunOf(t, p + 1, Digits) ELSE 0
        token(q, n) ==
            IF n >= 1 THEN Some(slice(t, q - 1, q - 1 + n + fraction(q + n))) ELSE None
        number(q) == token(q, RunOf(t, q, Digits))
        skip(r) == IF r <= 10 THEN number(e + r) ELSE None
    IN  skip(RunOf(t, e, CharsOf(t) \ Digits))

\* the ends (position after the last character) of the keyword matches
\* that start at position s, in the order of the alternatives
keywordEnds(t, s, kws) ==
    LET Hit(k) == OccursAt(t, kws[k], s)
    IN  [j \in 1..Cardinality({k \in 1..Len(kws) : Hit(k)}) |->
            LET k == CHOOSE x \in 1..Len(kws) :
                        Hit(x) /\ Cardinality({y \in 1..(x - 1) : Hit(y)}) = j - 1
            IN  s + Len(kws[k])]

\* unit\s*price at position s: the end of the match, as a sequence of 0 or 1
UnitPriceEnd(t, s) ==
    LET unit  == <<"u", "n", "i", "t">>
        price == <<"p", "r", "i", "c", "e">>
        w     == RunOf(t, s + 4, WhiteSpace)
    IN  IF OccursAt(t, unit, s) /\ OccursAt(t, price, s + 4 + w)
        THEN <<s + 4 + w + 5>> ELSE <<>>

\* t.match(kw)[2] for a kw whose keyword matches from position s end at
\* ends[s]: leftmost start, first alternative whose continuation matches
keywordNumber(t, ends) ==
    LET good(e) == {j \in 1..Len(e) : numberAfter(t, e[j]) /= None}
        firstOf(e, js) == numberAfter(t, e[CHOOSE x \in js : \A y \in js : x <= y])
        matchAt(e) == firstOf(e, good(e))
        leftmost(starts) ==
            IF starts = {} THEN None
            ELSE matchAt(ends[CHOOSE x \in starts : \A z \in starts : x <= z])
    IN  leftmost({s \in 1..Len(t) : good(ends[s]) /= {}})

\* without lines 96-98: the largest number, keyword or not
pickLikelyAmountLargest(text) ==
    LET largest(nums) == IF Len(nums) > 0 THEN MaxOf(nums) ELSE 0
    IN  largest(numbersInText(text))

pickLikelyAmount(text) ==
    LET largest(nums) == IF Len(nums) > 0 THEN MaxOf(nums) ELSE 0
        amount(m) ==
            IF m /= None THEN parseFloat(removeCommas(m[1]))
            ELSE largest(numbersInText(text))
        inText(t) ==
            amount(keywordNumber(t, [s \in 1..Len(t) |-> keywordEnds(t, s, AmountKeywords)]))
    IN  inText(toLowerCase(normalizeDigits(text)))

pickLikelyPrice(text) ==
    LET smallest(nums) == IF Len(nums) > 0 THEN MinOf(nums) ELSE 0
        price(m) ==
            IF m /= None THEN parseFloat(removeCommas(m[1]))
            ELSE smallest(numbersInText(text))
        inText(t) ==
            price(keywordNumber(t, [s \in 1..Len(t) |->
                      UnitPriceEnd(t, s) \o keywordEnds(t, s, PriceKeywords)]))
    IN  inText(toLowerCase(normalizeDigits(text)))

(***************************************************************************)
(* pickLikelyProduct (lines 112-124)                                       *)
(***************************************************************************)
\* (المنتج|product|item|اسم المنتج) of line 116
ProductKeywords == <<
    <<"alef", "lam", "meem", "noon", "teh", "jeem">>,
    <<"p", "r", "o", "d", "u", "c", "t">>,
    <<"i", "t", "e", "m">>,
    <<"alef", "seen", "meem", " ", "alef", "lam", "meem", "noon", "teh", "jeem">> >>

\* text.split(/\r?\n/): the lines of t from position p on, a line ending
\* before the next \n and before the \r in front of it
RECURSIVE splitLines(_, _)
splitLines(t, p) ==
    LET Breaks == {i \in p..Len(t) : t[i] = "\n"}
        lineEnd(k) == IF k > p /\ t[k - 1] = "\r" THEN k - 2 ELSE k - 1
        upTo(k) == <<slice(t, p - 1, lineEnd(k))>> \o splitLines(t, k + 1)
    IN  IF Breaks = {} THEN <<slice(t, p - 1, Len(t))>>
        ELSE upTo(CHOOSE i \in Breaks : \A j \in Breaks : i <= j)

\* String.prototype.trim
trim(s) ==
    LET Ink == {i \in 1..Len(s) : s[i] \notin WhiteSpace}
    IN  IF Ink = {} THEN <<>>
        ELSE LET a == CHOOSE i \in Ink : \A j \in Ink : i <= j
                 b == CHOOSE i \in Ink : \A j \in Ink : i >= j
             IN  slice(s, a - 1, b)

\* .map((l)=>l.trim()).filter(Boolean)
trimmedLines(text) ==
    LET NonEmpty(l) == l /= <<>>
        trimAll(raw) == [i \in 1..Len(raw) |-> trim(raw[i])]
    IN  SelectSeq(trimAll(splitLines(text, 1)), NonEmpty)

\* s.replace(/[:：]/, ""): the first colon of s removed
removeFirstColon(s) ==
    LET Colons == {i \in 1..Len(s) : s[i] \in {":", "fw_colon"}}
    IN  IF Colons = {} THEN s
        ELSE LET k == CHOOSE i \in Colons : \A j \in Colons : i <= j
             IN  slice(s, 0, k - 1) \o slice(s, k, Len(s))

\* /^[...]+$/.test(s) for the character class cls
AllIn(s, cls) == s /= <<>> /\ \A i \in 1..Len(s) : s[i] \in cls

hasProductKeyword(l) == \E k \in 1..Len(ProductKeywords) : includes(l, ProductKeywords[k])

\* the line after the keyword line i, as line 117 cleans it
nextLine(lines, i) == trim(removeFirstColon(lines[i + 1]))

\* the test of lines 116 and 118 for line i
keywordLineYields(lines, i) ==
    LET usable(l) == l /= <<>> /\ ~AllIn(l, Digits \cup {".", ","})
    IN  /\ hasProductKeyword(toLowerCase(lines[i]))
        /\ i + 1 <= Len(lines)
        /\ usable(nextLine(lines, i))

\* the last of the longest lines
longestLast(ls) ==
    IF Len(ls) = 0 THEN <<>>
    ELSE ls[CHOOSE i \in 1..Len(ls) :
               /\ \A j \in 1..Len(ls) : Len(ls[j]) <= Len(ls[i])
               /\ \A j \in (i + 1)..Len(ls) : Len(ls[j]) < Len(ls[i])]

\* nonNum.sort((a,b)=> b.length - a.length)[0]: the first of the longest
longestFirst(ls) ==
    IF Len(ls) = 0 THEN <<>>
    ELSE ls[CHOOSE i \in 1..Len(ls) :
               /\ \A j \in 1..Len(ls) : Len(ls[j]) <= Len(ls[i])
               /\ \A j \in 1..(i - 1) : Len(ls[j]) < Len(ls[i])]

pickLikelyProduct(text) ==
    LET NotNumeric(l) == ~AllIn(l, Digits \cup {".", ",", "-"})
        first(ys) == CHOOSE i \in ys : \A j \in ys : i <= j
        pick(lines, ys) ==
            IF ys /= {} THEN slice(nextLine(lines, first(ys)), 0, 60)
            ELSE slice(longestFirst(SelectSeq(lines, NotNumeric)), 0, 60)
        inLines(lines) == pick(lines, {i \in 1..Len(lines) : keywordLineYields(lines, i)})
    IN  inLines(trimmedLines(text))

(***************************************************************************)
(* parseInvoiceText (lines 287-293)                                        *)
(***************************************************************************)
parseInvoiceText(text) ==
    [date    |-> parseDateFromText(text),
     amount  |-> pickLikelyAmount(text),
     price   |-> pickLikelyPrice(text),
     product |-> pickLikelyProduct(text)]

(***************************************************************************)
(* similarText, closeNum, compareWithData (lines 126-135, 295-305)         *)
(***************************************************************************)
\* without line 127: an empty text is contained in every text
similarTextUnguarded(a, b) ==
    includes(toLowerCase(a), toLowerCase(b)) \/ includes(toLowerCase(b), toLowerCase(a))

similarText(a, b) ==
    IF a = <<>> \/ b = <<>> THEN FALSE
    ELSE includes(toLowerCase(a), toLowerCase(b)) \/ includes(toLowerCase(b), toLowerCase(a))

\* diff <= Math.max(1, 0.05 * Math.max(a, b)), both sides times 20, in
\* hundredths
closeNum(a, b) ==
    IF a = 0 \/ b = 0 THEN FALSE
    ELSE 20 * Abs(a - b) <= Max2(20 * Scale, Max2(a, b))

\* line 301 comparing the two Date values, not their days
rowAgreesSameInstant(r, inv) ==
    LET okProduct == similarText(r.product, inv.product)
        okPrice   == IF inv.price /= 0 THEN closeNum(r.price, inv.price) ELSE TRUE
        okAmount  == IF inv.amount /= 0 THEN closeNum(r.revenue, inv.amount) ELSE TRUE
        okDate    == IF inv.date /= None /\ r.date /= None
                     THEN r.date = inv.date ELSE TRUE
    IN  okProduct /\ okPrice /\ okAmount /\ okDate

\* lines 299 and 300 without the test that the candidate has the number
rowAgreesAlwaysCompared(r, inv) ==
    LET okProduct == similarText(r.product, inv.product)
        okPrice   == closeNum(r.price, inv.price)
        okAmount  == closeNum(r.revenue, inv.amount)
        okDate    == IF inv.date /= None /\ r.date /= None
                     THEN yyyymmdd(r.date) = yyyymmdd(inv.date) ELSE TRUE
    IN  okProduct /\ okPrice /\ okAmount /\ okDate

\* the four tests of lines 298-301 for the ledger row r
rowAgrees(r, inv) ==
    LET okProduct == similarText(r.product, inv.product)
        okPrice   == IF inv.price /= 0 THEN closeNum(r.price, inv.price) ELSE TRUE
        okAmount  == IF inv.amount /= 0 THEN closeNum(r.revenue, inv.amount) ELSE TRUE
        okDate    == IF inv.date /= None /\ r.date /= None
                     THEN yyyymmdd(r.date) = yyyymmdd(inv.date) ELSE TRUE
    IN  okProduct /\ okPrice /\ okAmount /\ okDate

\* the loop of line 297 keeps the last row that passes, not the first
compareWithDataLast(inv, rows) ==
    LET Agree == {i \in 1..Len(rows) : rowAgrees(rows[i], inv)}
    IN  IF Agree /= {}
        THEN [match |-> TRUE, row |-> Some(rows[CHOOSE i \in Agree : \A j \in Agree : i >= j])]
        ELSE [match |-> FALSE, row |-> None]

\* rows is the ledger, the value of normalized (lines 172-186)
compareWithData(inv, rows) ==
    LET Agree == {i \in 1..Len(rows) : rowAgrees(rows[i], inv)}
    IN  IF Len(rows) = 0 THEN [match |-> FALSE, row |-> None]
        ELSE IF Agree /= {}
             THEN [match |-> TRUE, row |-> Some(rows[CHOOSE i \in Agree : \A j \in Agree : i <= j])]
             ELSE [match |-> FALSE, row |-> None]

(***************************************************************************)
(* The pipeline: handleOCRFiles (lines 307-331)                            *)
(***************************************************************************)
MaxCalls == 2     \* calls of handleOCRFiles in one run
MaxBatch == 2     \* files of one call
MaxItems == 3     \* files of one run
MaxClock == 1     \* milliseconds the clock advances in one run

\* the name of the i-th file of a selection
FileNameOf(i) == IF i % 2 = 1 THEN "a.png" ELSE "b.png"

\* the selections a call can get: 0..MaxBatch files
FileLists == {[i \in 1..n |-> [name |-> FileNameOf(i)]] : n \in 0..MaxBatch}

\* data.text of a successful recognition
RecognizedTexts == {
    <<>>,
    <<"F", "r", "e", "s", "h", " ", "M", "i", "l", "k", "\n",
      "T", "o", "t", "a", "l", " ", "ar1", "ar5", "ar0">> }

\* values of normalized while the OCR section is shown (line 542): the
\* ledgers are not empty
Ledgers == {
    << [date |-> None, product |-> <<"M", "i", "l", "k">>, qty |-> 1 * Scale,
        price |-> 150 * Scale, revenue |-> 150 * Scale, region |-> <<>>] >>,
    << [date |-> None, product |-> <<"M", "i", "l", "k">>, qty |-> 2 * Scale,
        price |-> 450 * Scale, revenue |-> 900 * Scale, region |-> <<>>] >> }

\* the messages the recognition engine passes to the logger: a phase name
\* and the progress of that phase in thousandths (0..1000 is 0..1)
EnginePhases == <<"initializing api", "recognizing text">>
ProgressLevels == {0, 995}
Messages == [status : {EnginePhases[k] : k \in 1..Len(EnginePhases)}, progress : ProgressLevels]

VARIABLES
    ocrItems,     \* the item list (line 150)
    calls,        \* the calls of handleOCRFiles made so far, each with its position
    now,          \* Date.now(), in milliseconds since the start of the run
    normalized,   \* the ledger (line 172)
    inv,          \* the candidate handed to compareWithData (line 295)
    verdict,      \* what compareWithData returned (line 325)
    given,        \* the text handed to an extractor (lines 65-124)
    extracted     \* what the extractor returned

vars == <<ocrItems, calls, now, normalized, inv, verdict, given, extracted>>

\* the variables of the functions applied on their own
direct == <<inv, verdict, given, extracted>>

\* Math.floor in the place of Math.round
roundPercentFloor(progress) == progress \div 10

\* Math.round((m.progress||0)*100)
roundPercent(progress) == (progress + 5) \div 10

\* the items start as "queued"
baseItemsQueued(files, stamps) ==
    [i \in 1..Len(files) |->
        [id |-> stamps[i] + (i - 1), name |-> files[i].name, status |-> "queued",
         progress |-> 0, text |-> <<>>, parsed |-> None, match |-> None,
         matchedRow |-> None]]

\* line 310: one item per file; stamps[i] is Date.now() as read for file i
baseItems(files, stamps) ==
    [i \in 1..Len(files) |->
        [id |-> stamps[i] + (i - 1), name |-> files[i].name, status |-> "processing",
         progress |-> 0, text |-> <<>>, parsed |-> None, match |-> None,
         matchedRow |-> None]]

\* the new items put in front: [...base, ...prev]
prependItems(prev, base) == base \o prev

\* line 311
appendItems(prev, base) == prev \o base

\* the test of line 318
loggerRelays(m) == m.status = "recognizing text" \/ m.progress /= 0

\* line 319
withProgress(prev, id, m) ==
    [k \in 1..Len(prev) |->
        IF prev[k].id = id THEN [prev[k] EXCEPT !.progress = roundPercent(m.progress)]
        ELSE prev[k]]

\* parseInvoiceText on the texts the engine returns, tabulated
parsedTexts == [t \in RecognizedTexts |-> parseInvoiceText(t)]

\* status "done" set without the verdict of compareWithData
withDoneNoVerdict(prev, id, text, rows) ==
    [k \in 1..Len(prev) |->
        IF prev[k].id = id
        THEN [prev[k] EXCEPT !.status = "done", !.text = text, !.parsed = Some(parsedTexts[text])]
        ELSE prev[k]]

\* lines 323-326
withDone(prev, id, text, rows) ==
    LET parsed == parsedTexts[text]
        cmp    == compareWithData(parsed, rows)
    IN  [k \in 1..Len(prev) |->
            IF prev[k].id = id
            THEN [prev[k] EXCEPT !.status = "done", !.text = text, !.parsed = Some(parsed),
                                 !.match = Some(cmp.match), !.matchedRow = cmp.row]
            ELSE prev[k]]

\* line 328
withError(prev, id) ==
    [k \in 1..Len(prev) |->
        IF prev[k].id = id THEN [prev[k] EXCEPT !.status = "error", !.progress = 0]
        ELSE prev[k]]

\* a call right after it has dispatched the recognition of its file i
awaiting(ids, i) ==
    [ids |-> ids, i |-> i, pc |-> "await", phase |-> 1, reported |-> 0]

\* the loop of line 313 that ends after the next file
afterFileSkips(call) ==
    IF call.i + 1 < Len(call.ids) THEN awaiting(call.ids, call.i + 2)
    ELSE [call EXCEPT !.pc = "returned"]

\* the for loop of line 313 after the try of file call.i has ended, by
\* success or in the catch: the next file is dispatched, or the call returns
afterFile(call) ==
    IF call.i < Len(call.ids) THEN awaiting(call.ids, call.i + 1)
    ELSE [call EXCEPT !.pc = "returned"]

\* a catch around the whole loop: the first failure ends the call
afterCatchReturns(call) == [call EXCEPT !.pc = "returned"]

\* the catch of lines 327-329 does not leave the loop
afterCatch(call) == afterFile(call)

\* the clock advances
Tick ==
    /\ now < MaxClock
    /\ now' = now + 1
    /\ UNCHANGED <<ocrItems, calls, normalized, direct>>

\* handleOCRFiles(fileList) up to its first await: lines 308-316
HandleOCRFiles ==
    /\ Len(calls) < MaxCalls
    /\ \E files \in FileLists :
         /\ Len(ocrItems) + Len(files) <= MaxItems
         /\ IF Len(files) = 0 THEN UNCHANGED vars
            ELSE \E stamps \in [1..Len(files) -> now..MaxClock] :
                   /\ stamps[1] = now
                   /\ \A i \in 1..(Len(files) - 1) : stamps[i] <= stamps[i + 1]
                   /\ LET base == baseItems(files, stamps)
                      IN  /\ ocrItems' = appendItems(ocrItems, base)
                          /\ calls' = Append(calls, awaiting([i \in 1..Len(base) |-> base[i].id], 1))
                   /\ now' = stamps[Len(files)]
                   /\ UNCHANGED <<normalized, direct>>

\* the engine calls the logger of the recognition call c is waiting for
\* (lines 317-321); within a phase the progress does not go back
Logger ==
    \E c \in 1..Len(calls) : \E m \in Messages :
        /\ calls[c].pc = "await"
        /\ \/ /\ m.status = EnginePhases[calls[c].phase]
              /\ m.progress >= calls[c].reported
           \/ \E ph \in (calls[c].phase + 1)..Len(EnginePhases) : m.status = EnginePhases[ph]
        /\ calls' = [calls EXCEPT ![c].phase = CHOOSE ph \in 1..Len(EnginePhases) : EnginePhases[ph] = m.status,
                                  ![c].reported = m.progress]
        /\ ocrItems' = IF loggerRelays(m)
                       THEN withProgress(ocrItems, calls[c].ids[calls[c].i], m)
                       ELSE ocrItems
        /\ UNCHANGED <<now, normalized, direct>>

\* Tesseract.recognize resolves for call c: lines 323-326, then the loop
Resolves(c) ==
    \E text \in RecognizedTexts :
        /\ c \in 1..Len(calls)
        /\ calls[c].pc = "await"
        /\ ocrItems' = withDone(ocrItems, calls[c].ids[calls[c].i], text, normalized)
        /\ calls' = [calls EXCEPT ![c] = afterFile(calls[c])]
        /\ UNCHANGED <<now, normalized, direct>>

\* Tesseract.recognize rejects for call c: line 328, then the loop
Rejects(c) ==
    /\ c \in 1..Len(calls)
    /\ calls[c].pc = "await"
    /\ ocrItems' = withError(ocrItems, calls[c].ids[calls[c].i])
    /\ calls' = [calls EXCEPT ![c] = afterCatch(calls[c])]
    /\ UNCHANGED <<now, normalized, direct>>

RecognizeResolves == \E c \in 1..MaxCalls : Resolves(c)
RecognizeRejects == \E c \in 1..MaxCalls : Rejects(c)

Init ==
    /\ ocrItems = <<>>
    /\ calls = <<>>
    /\ now = 0
    /\ normalized \in Ledgers
    /\ inv = None
    /\ verdict = None
    /\ given = <<>>
    /\ extracted = None

Next ==
    \/ Tick
    \/ HandleOCRFiles
    \/ Logger
    \/ RecognizeResolves
    \/ RecognizeRejects

Spec == Init /\ [][Next]_vars

\* the engine settles every request it has received: Tesseract.recognize
\* resolves or rejects
Settles(c) == Resolves(c) \/ Rejects(c)
FairSpec == Spec /\ \A c \in 1..MaxCalls : WF_vars(Settles(c))

(***************************************************************************)
(* Projections of the item list                                            *)
(***************************************************************************)
Items == 1..Len(ocrItems)
Terminal == {"done", "error"}

\* lines 333-335
correctCount    == Cardinality({k \in Items : ocrItems[k].status = "done" /\ ocrItems[k].match = Some(TRUE)})
wrongCount      == Cardinality({k \in Items : ocrItems[k].status = "done" /\ ocrItems[k].match = Some(FALSE)})
processingCount == Cardinality({k \in Items : ocrItems[k].status = "processing"})

\* the number of files handed to handleOCRFiles by the calls 1..n
RECURSIVE filesSubmitted(_)
filesSubmitted(n) == IF n = 0 THEN 0 ELSE filesSubmitted(n - 1) + Len(calls[n].ids)

\* the position in ocrItems of the item made for file i of call c
itemIndex(c, i) == filesSubmitted(c - 1) + i

(***************************************************************************)
(* Claims about the pipeline                                               *)
(***************************************************************************)
queuedCount == Cardinality({k \in Items : ocrItems[k].status = "queued"})
errorCount  == Cardinality({k \in Items : ocrItems[k].status = "error"})

\* the classes item k is in
ClassesOf(k) ==
    {cl \in {"matched", "unmatched", "processing", "queued", "error"} :
        \/ cl = "matched" /\ ocrItems[k].status = "done" /\ ocrItems[k].match = Some(TRUE)
        \/ cl = "unmatched" /\ ocrItems[k].status = "done" /\ ocrItems[k].match = Some(FALSE)
        \/ cl \in {"processing", "queued", "error"} /\ ocrItems[k].status = cl}

\* C1: in every state every item is in exactly one of the classes
\* Done-and-matched, Done-and-unmatched, Processing, Queued, Error, and the
\* five class counts sum to the number of files submitted so far.
C1_CountsSumToSubmitted ==
    /\ \A k \in Items : Cardinality(ClassesOf(k)) = 1
    /\ correctCount + wrongCount + processingCount + queuedCount + errorCount
         = filesSubmitted(Len(calls))

\* a matched, an unmatched and a failed item side by side
C1_Witness == correctCount >= 1 /\ wrongCount >= 1 /\ errorCount >= 1

\* C2: an item that is Done or Error is not changed by any later step, and
\* the list only grows.
C2_TerminalItemsFrozen ==
    [][/\ Len(ocrItems') >= Len(ocrItems)
       /\ \A k \in Items : ocrItems[k].status \in Terminal => ocrItems'[k] = ocrItems[k]]_vars

\* C3: no two items of the list share an id.
C3_IdsUnique ==
    \A j \in Items : \A k \in Items : j /= k => ocrItems[j].id /= ocrItems[k].id

\* C4: a step that takes one item to Error leaves the status and the
\* progress of every other item as they were.
C4_ErrorTouchesOneItem ==
    [][\A k \in Items :
         (ocrItems[k].status /= "error" /\ ocrItems'[k].status = "error")
         => \A j \in Items \ {k} :
               /\ ocrItems'[j].status = ocrItems[j].status
               /\ ocrItems'[j].progress = ocrItems[j].progress]_vars

\* the files of call c whose recognition has not been dispatched yet
Undispatched(c) ==
    IF calls[c].pc = "await" THEN (calls[c].i + 1)..Len(calls[c].ids) ELSE {}

C6_ProgressMonotonic ==
    [][\A k \in Items :
         (ocrItems[k].status = "processing" /\ ocrItems'[k].status = "processing")
         => /\ ocrItems'[k].progress \in 0..100
            /\ ocrItems'[k].progress >= ocrItems[k].progress]_vars

\* C6 amended: the progress of an item is always an integer in 0..100, and
\* whenever the progress of a Processing item changes, it becomes the
\* percentage, rounded half up, of the report the engine has just made for
\* a request with the id of that item (higher or lower than before).
C6_ProgressIsLatestReport ==
    [][\A k \in 1..Len(ocrItems') :
         /\ ocrItems'[k].progress \in 0..100
         /\ (/\ k \in Items
             /\ ocrItems[k].status = "processing"
             /\ ocrItems'[k].status = "processing"
             /\ ocrItems'[k].progress /= ocrItems[k].progress)
            => \E c \in 1..Len(calls) :
                  /\ calls[c].pc = "await"
                  /\ calls[c].ids[calls[c].i] = ocrItems[k].id
                  /\ 10 * ocrItems'[k].progress <= calls'[c].reported + 5
                  /\ calls'[c].reported + 5 < 10 * (ocrItems'[k].progress + 1)]_vars

\* a Processing item shows 100 after a report of 0.995
C6_Witness ==
    \E k \in Items : \E c \in 1..Len(calls) :
        /\ ocrItems[k].status = "processing"
        /\ ocrItems[k].progress = 100
        /\ calls[c].pc = "await"
        /\ calls[c].ids[calls[c].i] = ocrItems[k].id
        /\ calls[c].reported = 995

\* C7: an item is Done exactly when its candidate is populated and its
\* verdict is true or false, and it has a matched entry exactly when the
\* verdict is true.
C7_DoneIffPopulated ==
    \A k \in Items :
        /\ ocrItems[k].status = "done"
             <=> (ocrItems[k].parsed /= None /\ ocrItems[k].match \in {Some(TRUE), Some(FALSE)})
        /\ ocrItems[k].matchedRow /= None <=> ocrItems[k].match = Some(TRUE)

\* C8: a step that takes an item to Error leaves it with progress 0, no
\* candidate, no verdict and no matched entry, and no later step changes an
\* item that is Error.
C8_ErrorIsEmptyAndFinal ==
    [][\A k \in Items :
         /\ (ocrItems[k].status /= "error" /\ ocrItems'[k].status = "error")
            => /\ ocrItems'[k].progress = 0
               /\ ocrItems'[k].parsed = None
               /\ ocrItems'[k].match = None
               /\ ocrItems'[k].matchedRow = None
         /\ ocrItems[k].status = "error" => ocrItems'[k] = ocrItems[k]]_vars

\* C9: if the engine settles every request, every item of the list
\* eventually is Done or Error.
C9_EveryItemSettles ==
    \A k \in 1..MaxItems :
        (Len(ocrItems) >= k) ~> (Len(ocrItems) >= k /\ ocrItems[k].status \in Terminal)

\* a call has returned whose first file failed and whose second is Done
C9_Witness ==
    \E c \in 1..Len(calls) :
        /\ calls[c].pc = "returned"
        /\ Len(calls[c].ids) >= 2
        /\ ocrItems[itemIndex(c, 1)].status = "error"
        /\ ocrItems[itemIndex(c, 2)].status = "done"

\* C10: no step moves an item: the list only grows at its end, and the
\* item at each position stays the item of the same file.
C10_SubmissionOrderKept ==
    [][/\ Len(ocrItems') >= Len(ocrItems)
       /\ \A k \in Items : /\ ocrItems'[k].id = ocrItems[k].id
                           /\ ocrItems'[k].name = ocrItems[k].name]_vars

\* a later item is Done while an earlier one is still Processing
C10_Witness ==
    \E j \in Items : \E k \in Items :
        /\ j < k
        /\ ocrItems[j].status = "processing"
        /\ ocrItems[k].status = "done"
        /\ ocrItems[j].id /= ocrItems[k].id

(***************************************************************************)
(* compareWithData applied on its own (lines 295-305)                      *)
(***************************************************************************)
MaxRows == 2      \* rows of the ledger handed to compareWithData

\* the dates of ledger rows: none, or a day with an hour of that day
LedgerDates == {
    None,
    Some([year |-> 2024, month |-> 5, day |-> 1, hour |-> 13]),
    Some([year |-> 2024, month |-> 5, day |-> 2, hour |-> 0]) }

\* rows of normalized (lines 174-184): the product is not empty, and the
\* revenue of one unit with no revenue column is qty * price (line 181)
LedgerRows ==
    {[date |-> d, product |-> p, qty |-> 1 * Scale, price |-> v, revenue |-> v,
      region |-> <<>>] :
        d \in LedgerDates,
        p \in {<<"M", "i", "l", "k">>, <<"M", "I", "L", "K", " ", "2", "L">>},
        v \in {0, 100 * Scale}}

MatcherLedgers == UNION {[1..n -> LedgerRows] : n \in 0..MaxRows}

\* values of { date, amount, price, product } (line 292): a date is one
\* new Date(y, mo-1, da) built, the numbers are 0 when nothing was found
Candidates ==
    [date : {None, Some([year |-> 2024, month |-> 5, day |-> 1])},
     amount : {0, 105 * Scale, 106 * Scale},
     price : {0, 1 * Scale, 105 * Scale, 106 * Scale},
     product : {<<>>, <<"m", "i", "l", "k">>, <<"t", "e", "a">>}]

MatcherInit ==
    /\ ocrItems = <<>>
    /\ calls = <<>>
    /\ now = 0
    /\ normalized \in MatcherLedgers
    /\ inv \in Candidates
    /\ verdict = None
    /\ given = <<>>
    /\ extracted = None

\* const cmp = compareWithData(parsed) (line 325)
CompareWithData ==
    /\ verdict = None
    /\ inv /= None
    /\ verdict' = Some(compareWithData(inv, normalized))
    /\ UNCHANGED <<ocrItems, calls, now, normalized, inv, given, extracted>>

MatcherNext == CompareWithData

MatcherSpec == MatcherInit /\ [][MatcherNext]_vars

(***************************************************************************)
(* Claims about compareWithData                                            *)
(***************************************************************************)
\* the rows of the ledger that pass the four tests for the candidate
Agreeing == {i \in 1..Len(normalized) : rowAgrees(normalized[i], inv)}

\* C11: the verdict is a match exactly when some row of the ledger passes
\* the four tests, the row returned is then the one of least index among
\* those that pass, and no row is returned when there is no match (an
\* empty ledger included).
C11_FirstAgreeingRow ==
    verdict /= None =>
        /\ verdict[1].match = (Agreeing /= {})
        /\ (Agreeing = {}) => (verdict[1].row = None)
        /\ (Agreeing /= {}) =>
              \E i \in Agreeing :
                  /\ \A j \in Agreeing : i <= j
                  /\ verdict[1].row = Some(normalized[i])

\* two different rows pass the four tests and the first one is returned
C11_Witness ==
    /\ verdict /= None
    /\ Len(normalized) = 2
    /\ Agreeing = {1, 2}
    /\ normalized[1] /= normalized[2]
    /\ verdict[1].match
    /\ verdict[1].row = Some(normalized[1])

\* |L - C| <= max(1, 0.05 * max(L, C)), both sides times 20, in hundredths
WithinTolerance(L, C) == 20 * Abs(L - C) <= Max2(20 * Scale, Max2(L, C))

\* the tests of lines 298 and 301 for the row r, as the code makes them
productAndDateAgree(r) ==
    /\ similarText(r.product, inv.product)
    /\ (inv.date /= None /\ r.date /= None) => (yyyymmdd(r.date) = yyyymmdd(inv.date))

\* C12: a price the candidate has passes exactly when it is within the
\* tolerance of the ledger price, for every ledger price from 0 on, and an
\* amount the candidate has passes by the same rule against the revenue:
\* so the verdict is a match exactly when some row passes these two rules
\* and the tests of product and date.
C12_ToleranceRule ==
    verdict /= None =>
        verdict[1].match =
            \E i \in 1..Len(normalized) :
                /\ productAndDateAgree(normalized[i])
                /\ (inv.price /= 0) => WithinTolerance(normalized[i].price, inv.price)
                /\ (inv.amount /= 0) => WithinTolerance(normalized[i].revenue, inv.amount)

\* the text a contains the text b, letter case ignored
ContainsIgnoringCase(a, b) ==
    \E p \in 0..(Len(a) - Len(b)) :
        \A j \in 1..Len(b) : toLowerChar(a[p + j]) = toLowerChar(b[j])

\* the candidate has a product and nothing else
OnlyProduct == inv.product /= <<>> /\ inv.price = 0 /\ inv.amount = 0 /\ inv.date = None

\* C13: for a candidate that has only a product, every row whose product
\* contains the candidate's or is contained in it, letter case ignored,
\* makes the verdict a match, with that row or an earlier such row
\* returned, whatever the row's price, revenue and date are.
C13_ProductAloneMatches ==
    (verdict /= None /\ OnlyProduct) =>
        \A i \in 1..Len(normalized) :
            (\/ ContainsIgnoringCase(normalized[i].product, inv.product)
             \/ ContainsIgnoringCase(inv.product, normalized[i].product)) =>
                /\ verdict[1].match
                /\ \E j \in 1..i : verdict[1].row = Some(normalized[j])

\* a candidate with only a product matched a row whose price and revenue
\* are 0 and whose date is set
C13_Witness ==
    /\ verdict /= None
    /\ OnlyProduct
    /\ verdict[1].match
    /\ verdict[1].row[1].price = 0
    /\ verdict[1].row[1].revenue = 0
    /\ verdict[1].row[1].date /= None
    /\ verdict[1].row[1].product /= inv.product

\* C14: a candidate without a product matches no row of the ledger,
\* whatever its price, amount and date are: the verdict is no match and no
\* row is returned.
C14_NoProductNoMatch ==
    (verdict /= None /\ inv.product = <<>>) =>
        /\ ~verdict[1].match
        /\ verdict[1].row = None

\* a candidate without a product got no match from a ledger with a row
\* whose price, revenue and day are the candidate's
C14_Witness ==
    /\ verdict /= None
    /\ inv.product = <<>>
    /\ inv.price /= 0
    /\ inv.amount /= 0
    /\ inv.date /= None
    /\ \E i \in 1..Len(normalized) :
          /\ closeNum(normalized[i].price, inv.price)
          /\ closeNum(normalized[i].revenue, inv.amount)
          /\ normalized[i].date /= None
          /\ yyyymmdd(normalized[i].date) = yyyymmdd(inv.date)
    /\ ~verdict[1].match

\* the two dates are the same day of the calendar
SameDay(d, e) == d.year = e.year /\ d.month = e.month /\ d.day = e.day

\* the tests of lines 298-300 for the row r, as the code makes them
productAndNumbersAgree(r) ==
    /\ similarText(r.product, inv.product)
    /\ (inv.price /= 0) => closeNum(r.price, inv.price)
    /\ (inv.amount /= 0) => closeNum(r.revenue, inv.amount)

\* C15: the test of the date passes when the candidate or the row has no
\* date, and when both have one exactly when the two are the same day,
\* whatever the hour: so the verdict is a match exactly when some row
\* passes this rule and the tests of product, price and amount.
C15_DateRule ==
    verdict /= None =>
        verdict[1].match =
            \E i \in 1..Len(normalized) :
                /\ productAndNumbersAgree(normalized[i])
                /\ \/ inv.date = None
                   \/ normalized[i].date = None
                   \/ SameDay(normalized[i].date[1], inv.date[1])

\* the candidate has a date, the first row has another day and is passed
\* over, the second row has the candidate's day at another hour and is
\* returned
C15_Witness ==
    /\ verdict /= None
    /\ inv.date /= None
    /\ Len(normalized) = 2
    /\ normalized[1].date /= None
    /\ ~SameDay(normalized[1].date[1], inv.date[1])
    /\ productAndNumbersAgree(normalized[1])
    /\ normalized[2].date /= None
    /\ normalized[2].date[1].hour /= 0
    /\ verdict[1].match
    /\ verdict[1].row = Some(normalized[2])

(***************************************************************************)
(* normalizeDigits applied on its own (lines 65-66)                        *)
(***************************************************************************)
MaxPieces == 3    \* pieces a text handed to a function is made of

\* the pieces one after the other
RECURSIVE Concat(_)
Concat(pieces) == IF pieces = <<>> THEN <<>> ELSE Head(pieces) \o Concat(Tail(pieces))

\* the texts made of at most n of the pieces
TextsOf(pieces, n) == {Concat(ps) : ps \in UNION {[1..k -> pieces] : k \in 0..n}}

\* pieces of the texts handed to normalizeDigits: the ten digits of line
\* 66, a year, a number with a thousands separator, the Arabic comma, and
\* characters line 66 does not name ("ar_decimal" is U+066B and "fa4" is
\* the Persian digit U+06F4)
NormalizerPieces == {
    ArabicDigits,
    <<"ar2", "ar0", "ar2", "ar4">>,
    <<"ar1", "ar_thousands", "ar2", "ar3", "ar4">>,
    <<"ar_comma">>,
    <<"7", ",">>,
    <<"a", " ">>,
    <<"ar_decimal">>,
    <<"fa4">> }

NormalizerTexts == TextsOf(NormalizerPieces, MaxPieces)

NormalizerInit ==
    /\ ocrItems = <<>>
    /\ calls = <<>>
    /\ now = 0
    /\ normalized = <<>>
    /\ inv = None
    /\ verdict = None
    /\ given \in NormalizerTexts
    /\ extracted = None

\* normalizeDigits(s)
NormalizeDigits ==
    /\ extracted = None
    /\ extracted' = Some(normalizeDigits(given))
    /\ UNCHANGED <<ocrItems, calls, now, normalized, inv, verdict, given>>

NormalizerNext == NormalizeDigits

NormalizerSpec == NormalizerInit /\ [][NormalizerNext]_vars

(***************************************************************************)
(* Claims about normalizeDigits                                            *)
(***************************************************************************)
\* C16: normalizing a normalized text changes nothing.
C16_Idempotent ==
    extracted /= None => normalizeDigits(extracted[1]) = extracted[1]

\* a text with an Arabic digit and an Arabic separator was normalized
C16_Witness ==
    /\ extracted /= None
    /\ \E i \in 1..Len(given) : given[i] = "ar3"
    /\ \E i \in 1..Len(given) : given[i] = "ar_comma"
    /\ extracted[1] /= given

\* the ASCII character the claim gives for the character c
AsciiOf(c) ==
    CASE c = "ar0" -> "0" [] c = "ar1" -> "1" [] c = "ar2" -> "2" [] c = "ar3" -> "3"
      [] c = "ar4" -> "4" [] c = "ar5" -> "5" [] c = "ar6" -> "6" [] c = "ar7" -> "7"
      [] c = "ar8" -> "8" [] c = "ar9" -> "9"
      [] c = "ar_comma" -> "," [] c = "ar_thousands" -> ","
      [] OTHER -> c

\* C17: the normalized text has the length of the text, each Arabic-Indic
\* digit is replaced by the ASCII digit of its value, the Arabic comma and
\* the Arabic thousands separator by ",", and every other character is
\* kept where it is.
C17_DigitsAndSeparators ==
    extracted /= None =>
        /\ Len(extracted[1]) = Len(given)
        /\ \A i \in 1..Len(given) : extracted[1][i] = AsciiOf(given[i])

\* the four Arabic-Indic digits of 2024 became "2024"
C17_Witness ==
    /\ given = <<"ar2", "ar0", "ar2", "ar4">>
    /\ extracted = Some(<<"2", "0", "2", "4">>)

(***************************************************************************)
(* parseDateFromText applied on its own (lines 69-87)                      *)
(***************************************************************************)
\* pieces of the texts handed to parseDateFromText: dates of the first
\* shape (one with a month and a day out of range, one with a year below
\* 100, one in Arabic-Indic digits with a day out of range), a date of
\* the second shape, a digit that joins them and a blank that parts them
DatePieces == {
    <<"2", "0", "2", "4", "-", "0", "5", "-", "0", "1">>,
    <<"0", "1", "-", "0", "5", "-", "2", "4">>,
    <<"2", "0", "2", "4", "-", "1", "3", "-", "4", "0">>,
    <<"0", "0", "2", "4", "-", "0", "5", "-", "0", "1">>,
    <<"ar2", "ar0", "ar2", "ar4", "/", "ar0", "ar2", "/", "ar3", "ar0">>,
    <<"1">>,
    <<" ">> }

DateTexts == TextsOf(DatePieces, MaxPieces)

DateInit ==
    /\ ocrItems = <<>>
    /\ calls = <<>>
    /\ now = 0
    /\ normalized = <<>>
    /\ inv = None
    /\ verdict = None
    /\ given \in DateTexts
    /\ extracted = None

\* const date = parseDateFromText(text) (line 288)
ParseDateFromText ==
    /\ extracted = None
    /\ extracted' = Some(parseDateFromText(given))
    /\ UNCHANGED <<ocrItems, calls, now, normalized, inv, verdict, given>>

DateNext == ParseDateFromText

DateSpec == DateInit /\ [][DateNext]_vars

(***************************************************************************)
(* Claims about parseDateFromText                                          *)
(***************************************************************************)
\* the days of month mo (1..12) of year y in the calendar
CalendarDays(y, mo) ==
    IF mo = 2 THEN (IF (y % 4 = 0 /\ y % 100 /= 0) \/ y % 400 = 0 THEN 29 ELSE 28)
    ELSE IF mo \in {4, 6, 9, 11} THEN 30
    ELSE 31

\* year y, month mo and day da are a date of the calendar
ValidDate(y, mo, da) == mo \in 1..12 /\ da \in 1..CalendarDays(y, mo)

\* the first match of each shape in the normalized text, as <<y, mo, da>>
\* in a sequence of 0 or 1, a two-digit year of the second shape read as
\* 2000 + YY
FirstShape == matchP1(normalizeDigits(given))
SecondShape ==
    LET shaped(m) ==
            IF m = None THEN None
            ELSE Some(<<IF m[1][3] < 100 THEN 2000 + m[1][3] ELSE m[1][3], m[1][2], m[1][1]>>)
    IN  shaped(matchP2(normalizeDigits(given)))

\* C18: when the first match of the YYYY-MM-DD shape is a date of the
\* calendar, the result is that date, wherever the matches of the
\* DD-MM-YY(YY) shape are.
C18_FirstShapeWins ==
    (/\ extracted /= None
     /\ FirstShape /= None
     /\ ValidDate(FirstShape[1][1], FirstShape[1][2], FirstShape[1][3])) =>
        extracted[1] = Some([year  |-> FirstShape[1][1],
                             month |-> FirstShape[1][2],
                             day   |-> FirstShape[1][3]])

\* the match m of a shape is a date of the calendar with the month and the
\* day of the date d
validAndSameDay(m, d) ==
    /\ m /= None
    /\ ValidDate(m[1][1], m[1][2], m[1][3])
    /\ d.month = m[1][2]
    /\ d.day = m[1][3]

\* C19: a date is returned only when a match is a date of the calendar,
\* and it has the month and the day of that match; a text whose matches
\* all have a month or a day out of range yields no date.
C19_OnlyValidDates ==
    (extracted /= None /\ extracted[1] /= None) =>
        \/ validAndSameDay(FirstShape, extracted[1][1])
        \/ validAndSameDay(SecondShape, extracted[1][1])

(***************************************************************************)
(* pickLikelyAmount applied on its own (lines 94-101)                      *)
(***************************************************************************)
\* pieces of the texts handed to pickLikelyAmount: a keyword with its
\* number, larger numbers without a keyword, a keyword in capitals, eleven
\* letters, numbers, an Arabic keyword with a number in Arabic-Indic
\* digits, three numbers parted by blanks, two numbers parted by a letter,
\* a zero, and numbers with grouping commas
AmountPieces == {
    <<"T", "o", "t", "a", "l", ":", " ", "1", "5", "0">>,
    <<" ", "o", "t", "h", "e", "r", " ", "n", "u", "m", "b", "e", "r", "s", " ",
      "9", "9", "9", " ", "2", "0">>,
    <<"A", "M", "O", "U", "N", "T">>,
    <<"a", "b", "c", "d", "e", "f", "g", "h", "i", "j", "k">>,
    <<" ", "7">>,
    <<" ", "1", "2", ".", "5">>,
    <<"alef", "lam", "meem", "beh", "lam", "ghain", " ",
      "ar1", "ar_thousands", "ar2", "ar3", "ar4">>,
    <<" ", "1", "2", " ", "4", "5", "0", " ", "7">>,
    <<" ", "1", "2", "a", "4", "5", "0">>,
    <<" ", "0">>,
    <<" ", "1", ",", "2", "3", "4", ".", "5", "0">>,
    <<" ", "1", ",", "2", "3", "4", ",", "5", "6", "7">> }

AmountTexts == TextsOf(AmountPieces, MaxPieces)

AmountInit ==
    /\ ocrItems = <<>>
    /\ calls = <<>>
    /\ now = 0
    /\ normalized = <<>>
    /\ inv = None
    /\ verdict = None
    /\ given \in AmountTexts
    /\ extracted = None

\* const amount = pickLikelyAmount(text) (line 289)
PickLikelyAmount ==
    /\ extracted = None
    /\ extracted' = Some(pickLikelyAmount(given))
    /\ UNCHANGED <<ocrItems, calls, now, normalized, inv, verdict, given>>

AmountNext == PickLikelyAmount

AmountSpec == AmountInit /\ [][AmountNext]_vars

(***************************************************************************)
(* Claims about pickLikelyAmount                                           *)
(***************************************************************************)
\* the pairs <<s, q>> of the normalized text t in small letters where an
\* amount keyword starts at s and the first digit after it stands at q,
\* at most 10 characters that are not digits after the end of the keyword
AmountAnchors(t) ==
    {sq \in (1..Len(t)) \X (1..Len(t)) :
        \E k \in 1..Len(AmountKeywords) :
            /\ OccursAt(t, AmountKeywords[k], sq[1])
            /\ sq[2] - (sq[1] + Len(AmountKeywords[k])) \in 0..10
            /\ IsDigit(t[sq[2]])
            /\ \A j \in (sq[1] + Len(AmountKeywords[k]))..(sq[2] - 1) : ~IsDigit(t[j])}

\* the number of t whose first digit stands at q: digits, then "." or ","
\* and digits if there are, the comma left out
NumberAt(t, q) == parseFloat(removeCommas(Head(numberTokens(t, q))))

\* C20: when an amount keyword, in any letter case, is followed within at
\* most 10 characters that are not digits by a number, the result is that
\* number, for the first such keyword of the text, whatever other numbers
\* the text has; otherwise the result is the largest number of the text,
\* or 0 when it has none.
C20_KeywordBeforeLargest ==
    extracted /= None =>
        LET expected(t, anchors, nums) ==
                IF anchors /= {}
                THEN NumberAt(t, (CHOOSE a \in anchors : \A b \in anchors : a[1] <= b[1])[2])
                ELSE IF Len(nums) > 0 THEN MaxOf(nums) ELSE 0
            inText(t) == expected(t, AmountAnchors(t), numbersInText(given))
        IN  extracted[1] = inText(toLowerCase(normalizeDigits(given)))

\* "Total: 150 other numbers 999 20" gave 150
C20_Witness ==
    /\ given = <<"T", "o", "t", "a", "l", ":", " ", "1", "5", "0",
                 " ", "o", "t", "h", "e", "r", " ", "n", "u", "m", "b", "e", "r", "s", " ",
                 "9", "9", "9", " ", "2", "0">>
    /\ extracted = Some(150 * Scale)

\* C21: when no amount keyword is followed by a number, the result is the
\* largest of the numbers numbersInText finds in the text.
C21_LargestWithoutKeyword ==
    (/\ extracted /= None
     /\ AmountAnchors(toLowerCase(normalizeDigits(given))) = {}
     /\ Len(numbersInText(given)) > 0) =>
        LET largestOf(nums) ==
                /\ \E i \in 1..Len(nums) : nums[i] = extracted[1]
                /\ \A i \in 1..Len(nums) : nums[i] <= extracted[1]
        IN  largestOf(numbersInText(given))

\* " 12 450 7" gave 450
C21_Witness ==
    /\ given = <<" ", "1", "2", " ", "4", "5", "0", " ", "7">>
    /\ extracted = Some(450 * Scale)

(***************************************************************************)
(* pickLikelyPrice applied on its own (lines 103-110)                      *)
(***************************************************************************)
\* pieces of the texts handed to pickLikelyPrice: "unit  price" with its
\* number, a keyword in capitals, three numbers parted by blanks, a zero,
\* a number, eleven letters, an Arabic keyword with a number in
\* Arabic-Indic digits, and a number with a grouping comma
PricePieces == {
    <<"U", "n", "i", "t", " ", " ", "P", "r", "i", "c", "e", ":", " ", "1", "2", ".", "5">>,
    <<"P", "R", "I", "C", "E">>,
    <<" ", "1", "2", " ", "4", "5", "0", " ", "7">>,
    <<" ", "0">>,
    <<" ", "3">>,
    <<"a", "b", "c", "d", "e", "f", "g", "h", "i", "j", "k">>,
    <<"alef", "lam", "seen", "ain", "reh", " ", "ar5">>,
    <<" ", "1", ",", "2", "3", "4", ".", "5", "0">> }

PriceTexts == TextsOf(PricePieces, MaxPieces)

PriceInit ==
    /\ ocrItems = <<>>
    /\ calls = <<>>
    /\ now = 0
    /\ normalized = <<>>
    /\ inv = None
    /\ verdict = None
    /\ given \in PriceTexts
    /\ extracted = None

\* const price = pickLikelyPrice(text) (line 290)
PickLikelyPrice ==
    /\ extracted = None
    /\ extracted' = Some(pickLikelyPrice(given))
    /\ UNCHANGED <<ocrItems, calls, now, normalized, inv, verdict, given>>

PriceNext == PickLikelyPrice

PriceSpec == PriceInit /\ [][PriceNext]_vars

(***************************************************************************)
(* Claims about pickLikelyPrice                                            *)
(***************************************************************************)
\* the pairs <<s, q>> of the normalized text t in small letters where a
\* price keyword starts at s and the first digit after it stands at q, at
\* most 10 characters that are not digits after the end of the keyword
\* ("unit price" ends with the keyword "price")
PriceAnchors(t) ==
    {sq \in (1..Len(t)) \X (1..Len(t)) :
        \E k \in 1..Len(PriceKeywords) :
            /\ OccursAt(t, PriceKeywords[k], sq[1])
            /\ sq[2] - (sq[1] + Len(PriceKeywords[k])) \in 0..10
            /\ IsDigit(t[sq[2]])
            /\ \A j \in (sq[1] + Len(PriceKeywords[k]))..(sq[2] - 1) : ~IsDigit(t[j])}

\* C22: when no price keyword is followed by a number, a text with
\* numbers yields a price, the smallest of its numbers, and only a text
\* without a number yields no price (which the code writes 0).
C22_SmallestWithoutKeyword ==
    (extracted /= None /\ PriceAnchors(toLowerCase(normalizeDigits(given))) = {}) =>
        LET smallestOf(nums) ==
                IF Len(nums) > 0
                THEN /\ extracted[1] /= 0
                     /\ \E i \in 1..Len(nums) : nums[i] = extracted[1]
                     /\ \A i \in 1..Len(nums) : nums[i] >= extracted[1]
                ELSE extracted[1] = 0
        IN  smallestOf(numbersInText(given))

\* C23: the amount is absent (which the code writes 0, the value the
\* matcher passes without comparing, line 300) only when the text has no
\* number: a text with a number, be it 0, yields an amount that is not the
\* absent one.
C23_AbsentOnlyWithoutNumbers ==
    (extracted /= None /\ extracted[1] = 0) => Len(numbersInText(given)) = 0

(***************************************************************************)
(* More claims about the pipeline                                          *)
(***************************************************************************)
\* the recognition of file j of call c has ended, by success or failure
settled(c, j) == j < calls[c].i \/ calls[c].pc = "returned"

\* C24: the step in which the recognition of an item succeeds leaves the
\* item Done, with a verdict that is a match exactly when a row of the
\* ledger passes the four tests for what was parsed, whatever the text
\* and the ledger; and an item that is Done once its recognition has
\* ended is never Error afterwards.
C24_SuccessIsDone ==
    [][/\ \A c \in 1..Len(calls) :
            Resolves(c) =>
                /\ ocrItems'[itemIndex(c, calls[c].i)].status = "done"
                /\ ocrItems'[itemIndex(c, calls[c].i)].match =
                       Some(\E r \in 1..Len(normalized) :
                               rowAgrees(normalized[r], ocrItems'[itemIndex(c, calls[c].i)].parsed[1]))
       /\ \A c \in 1..Len(calls) : \A j \in 1..Len(calls[c].ids) :
            (settled(c, j) /\ ocrItems[itemIndex(c, j)].status = "done") =>
                ocrItems'[itemIndex(c, j)].status /= "error"]_vars

(***************************************************************************)
(* pickLikelyProduct applied on its own (lines 112-124)                    *)
(***************************************************************************)
\* lines of the texts handed to pickLikelyProduct: a keyword line, a line
\* with a colon inside, a line with a leading full-width colon and blanks
\* around it, a number ended by \r\n, a number in Arabic-Indic digits, two
\* lines of 62 characters, and the Arabic keyword
ProductPieces == {
    <<"P", "r", "o", "d", "u", "c", "t", "\n">>,
    <<"S", "i", "z", "e", ":", " ", "L", "a", "r", "g", "e", "\n">>,
    <<" ", " ", "fw_colon", " ", "M", "i", "l", "k", " ", "2", "L", " ",
      "\n">>,
    <<"1", "2", ".", "5", "\r", "\n">>,
    <<"ar1", "ar2", "ar3", "\n">>,
    <<"a", "b", "c", "d", "e", "f", "g", "h", "i", "j", "a", "b", "c",
      "d", "e", "f", "g", "h", "i", "j", "a", "b", "c", "d", "e", "f",
      "g", "h", "i", "j", "a", "b", "c", "d", "e", "f", "g", "h", "i",
      "j", "a", "b", "c", "d", "e", "f", "g", "h", "i", "j", "a", "b",
      "c", "d", "e", "f", "g", "h", "i", "j", "a", "b", "\n">>,
    <<"K", "L", "M", "N", "O", "P", "Q", "R", "S", "T", "K", "L", "M",
      "N", "O", "P", "Q", "R", "S", "T", "K", "L", "M", "N", "O", "P",
      "Q", "R", "S", "T", "K", "L", "M", "N", "O", "P", "Q", "R", "S",
      "T", "K", "L", "M", "N", "O", "P", "Q", "R", "S", "T", "K", "L",
      "M", "N", "O", "P", "Q", "R", "S", "T", "K", "L", "\n">>,
    <<"alef", "lam", "meem", "noon", "teh", "jeem", "\n">> }

ProductTexts == TextsOf(ProductPieces, MaxPieces)

ProductInit ==
    /\ ocrItems = <<>>
    /\ calls = <<>>
    /\ now = 0
    /\ normalized = <<>>
    /\ inv = None
    /\ verdict = None
    /\ given \in ProductTexts
    /\ extracted = None

\* const product = pickLikelyProduct(text) (line 291)
PickLikelyProduct ==
    /\ extracted = None
    /\ extracted' = Some(pickLikelyProduct(given))
    /\ UNCHANGED <<ocrItems, calls, now, normalized, inv, verdict, given>>

ProductNext == PickLikelyProduct

ProductSpec == ProductInit /\ [][ProductNext]_vars

\* a line with its leading colon, if it has one, removed
removeLeadingColon(s) ==
    IF s /= <<>> /\ s[1] \in {":", "fw_colon"} THEN Tail(s) ELSE s

\* the keyword lines of lines that are followed by a line that is not
\* purely numeric
KeywordLines(lines) ==
    {i \in 1..(Len(lines) - 1) :
        /\ hasProductKeyword(toLowerCase(lines[i]))
        /\ ~AllIn(lines[i + 1], Digits \cup {".", ","})}

\* C25: when some line contains a product keyword and is followed by a line
\* that is not purely numeric, the product is, for the first such line, the
\* following line with a leading colon removed and nothing else, cut to
\* its first 60 characters.
C25_LeadingColonOnly ==
    extracted /= None =>
        LET first(ys) == CHOOSE i \in ys : \A j \in ys : i <= j
            follows(lines, ys) ==
                ys /= {} =>
                    extracted[1] =
                        slice(trim(removeLeadingColon(lines[first(ys) + 1])), 0, 60)
            inLines(lines) == follows(lines, KeywordLines(lines))
        IN  inLines(trimmedLines(given))

\* the lines the fallback of lines 121-123 chooses from
FallbackLines(t) ==
    LET NotNumeric(l) == ~AllIn(l, Digits \cup {".", ",", "-"})
    IN  SelectSeq(trimmedLines(t), NotNumeric)

NoKeywordLineYields(t) ==
    LET none(lines) == \A i \in 1..Len(lines) : ~keywordLineYields(lines, i)
    IN  none(trimmedLines(t))

\* C26: the product is never longer than 60 characters, and when no keyword
\* line yields a product it is the first 60 characters of the longest line
\* that is not purely numeric, the earliest of them when several are the
\* longest, and empty when there is no such line.
C26_FallbackLongestEarliest ==
    extracted /= None =>
        /\ Len(extracted[1]) <= 60
        /\ NoKeywordLineYields(given) =>
               LET chosen(ls) ==
                       IF Len(ls) = 0 THEN extracted[1] = <<>>
                       ELSE \E i \in 1..Len(ls) :
                               /\ \A j \in 1..Len(ls) : Len(ls[j]) <= Len(ls[i])
                               /\ \A j \in 1..(i - 1) : Len(ls[j]) < Len(ls[i])
                               /\ extracted[1] = slice(ls[i], 0, 60)
               IN  chosen(FallbackLines(given))

\* two lines of 62 characters and a shorter one: the earlier long line is
\* chosen and cut to 60 characters
C26_Witness ==
    /\ extracted /= None
    /\ NoKeywordLineYields(given)
    /\ Len(FallbackLines(given)) = 3
    /\ Len(FallbackLines(given)[1]) < 62
    /\ Len(FallbackLines(given)[2]) = 62
    /\ Len(FallbackLines(given)[3]) = 62
    /\ FallbackLines(given)[2] /= FallbackLines(given)[3]
    /\ extracted[1] = slice(FallbackLines(given)[2], 0, 60)

\* C27: the product extractor decides on the normalized text: the product
\* of a text is, up to normalization, the product of the normalized text,
\* so a line of Arabic-Indic digits is never the product.
C27_DecidesOnNormalizedText ==
    extracted /= None =>
        normalizeDigits(extracted[1]) = pickLikelyProduct(normalizeDigits(given))

(***************************************************************************)
(* More claims about pickLikelyAmount (lines 89-101)                       *)
(***************************************************************************)
\* the length of the digits and grouping commas of t from position q on: a
\* comma belongs to them when a digit follows it
RECURSIVE GroupedRun(_, _)
GroupedRun(t, q) ==
    IF q > Len(t) THEN 0
    ELSE IF IsDigit(t[q]) THEN 1 + GroupedRun(t, q + 1)
    ELSE IF t[q] = "," /\ q + 1 <= Len(t) /\ IsDigit(t[q + 1]) THEN 1 + GroupedRun(t, q + 1)
    ELSE 0

\* the number written in t from position q on: digits with their grouping
\* commas, then a point and digits if there are
WrittenNumber(t, q) ==
    LET fraction(p) ==
            IF p + 1 <= Len(t) /\ t[p] = "." /\ IsDigit(t[p + 1])
            THEN 1 + RunOf(t, p + 1, Digits) ELSE 0
        token(n) == slice(t, q - 1, q - 1 + n + fraction(q + n))
    IN  token(GroupedRun(t, q))

\* C28: when an amount keyword is followed by a number, the amount is the
\* value of that number with every grouping comma removed and its decimal
\* part kept, and the scan of the numbers of a text gives the number alone
\* that same value, as one number.
C28_OneTokenParsing ==
    extracted /= None =>
        LET agrees(v, n) == extracted[1] = v /\ numbersInText(n) = <<v>>
            valueOf(n) == agrees(parseFloat(removeCommas(n)), n)
            atAnchor(t, anchors) ==
                anchors /= {} =>
                    valueOf(WrittenNumber(t, (CHOOSE a \in anchors : \A b \in anchors : a[1] <= b[1])[2]))
            inText(t) == atAnchor(t, AmountAnchors(t))
        IN  inText(toLowerCase(normalizeDigits(given)))

\* the positions of t where a number begins
NumberStarts(t) == {q \in 1..Len(t) : IsDigit(t[q]) /\ (q = 1 \/ ~IsDigit(t[q - 1]))}

\* C30: without an amount keyword followed by a number, the amount is not
\* larger than the largest number written in the text: digits parted by a
\* letter are not read as one number.
C30_NoJoinedDigits ==
    extracted /= None =>
        LET bounded(t) ==
                AmountAnchors(t) = {} =>
                    \/ extracted[1] = 0
                    \/ \E q \in NumberStarts(t) :
                           extracted[1] <= parseFloat(removeCommas(WrittenNumber(t, q)))
        IN  bounded(toLowerCase(normalizeDigits(given)))

(***************************************************************************)
(* The order of the recognitions of a call (lines 313-330)                 *)
(***************************************************************************)
\* C29: the files of a call are recognized one at a time in the order they
\* were handed in: every file before the one the call waits for, and every
\* file of a call that has returned, has an item that is done or error; a
\* step moves one call only, by one file at most, and when it moves the call
\* to the next file the item of the file it leaves is done or error.
C29_OneAtATimeInOrder ==
    [][/\ \A c \in 1..Len(calls') : \A j \in 1..Len(calls'[c].ids) :
            (settled(c, j))' => (ocrItems[itemIndex(c, j)].status)' \in Terminal
       /\ \A c \in 1..Len(calls) :
            calls'[c] /= calls[c] =>
                /\ calls'[c].i \in {calls[c].i, calls[c].i + 1}
                /\ calls'[c].i = calls[c].i + 1 =>
                       ocrItems'[itemIndex(c, calls[c].i)].status \in Terminal
                /\ \A d \in 1..Len(calls) : d /= c => calls'[d] = calls[d]]_vars

\* two calls wait for a recognition at the same time: the first has
\* finished its first file and waits for its second, the second has relayed
\* progress for its file
C29_Witness ==
    /\ Len(calls) = 2
    /\ calls[1].pc = "await" /\ calls[1].i = 2
    /\ calls[2].pc = "await" /\ calls[2].i = 1
    /\ Cardinality({ocrItems[k].id : k \in Items}) = 3
    /\ ocrItems[1].status \in Terminal
    /\ ocrItems[2].status = "processing"
    /\ ocrItems[3].status = "processing" /\ ocrItems[3].progress > 0

====
